---- MODULE Spec2Model ----
(***************************************************************************)
(* Study-room booking: the booking form (BookingForm.tsx), the application *)
(* shell that owns each client's reservation snapshot (App.tsx) and the    *)
(* shared reservation store (supabaseClient, demo implementation).         *)
(*                                                                         *)
(* Data representation.  A JavaScript string that the code splits, trims   *)
(* or joins is a sequence of tokens: a slot label ("9:00-13:00"), a name   *)
(* letter ("A"), the comma "," and the blank " " are one token each.  A    *)
(* date string "YYYY-MM-DD" is the number of days from today (string order *)
(* on that format is date order).  A store row has the four columns the    *)
(* form writes: date, leader (the booker's name), members (the role) and   *)
(* slot; the columns id and created_at, assigned by the store, are read by *)
(* none of the modelled code and are left out.                             *)
(***************************************************************************)
EXTENDS Integers, Sequences, FiniteSets, TLC

\* ------------------------------------------------------------------ bounds
\* Most rows of the store (a submission is not admitted beyond it): in the
\* capacity specification, the race specification and the one-client one.
MaxStore == 4
MaxRace == 2
MaxSolo == 2
\* Most reads of the store one client may have in flight: in the one-client
\* specifications, and in the two-client ones.
MaxFetch == 2
RaceFetch == 1
\* Most rows of a reservation history drawn for the validation specification.
MaxHist == 3
\* Longest slot catalog, and most rows of a history, of the catalog
\* specification.
MaxCatalog == 4
MaxLed == 2
\* Most rows of the store drawn for the serial specification.
MaxSerial == 3

\* --------------------------------------------------------------- constants
S1 == <<"9:00-13:00">>
S2 == <<"14:00-18:00">>
S3 == <<"19:00-22:30">>
TIME_SLOTS == <<S1, S2, S3>>
\* Labels of later blocks, for catalogs longer than TIME_SLOTS.
S4 == <<"22:30-23:00">>
S5 == <<"23:00-23:30">>
MAX_CAPACITY == 3
\* defaultDate = today + 2 days
DefaultDate == 2

Clients == {"c1", "c2"}
Roles == {"leader", "member"}
NoError == <<>>

\* ------------------------------------------------------------------- state
VARIABLES
  catalog,        \* the slot catalog TIME_SLOTS (static configuration)
  store,          \* the rows of table bookings, in insertion order
  bookings,       \* App: each client's snapshot of the store (useState)
  loading,        \* App: each client's loading flag
  fetches,        \* each client's reads of the store in flight
  date,           \* BookingForm: the form's date
  role,           \* BookingForm: the chosen role
  name,           \* BookingForm: the name as typed
  selectedSlots,  \* BookingForm: the selected slot labels
  isSubmitting,   \* BookingForm: a submission is awaiting the store
  error,          \* BookingForm: the error shown (NoError for null)
  inserting       \* the rows of each client's insert call in flight

vars == <<catalog, store, bookings, loading, fetches, date, role, name, selectedSlots,
          isSubmitting, error, inserting>>

formVars == <<date, role, name, selectedSlots>>

\* ------------------------------------------------------------ string tools
\* String.prototype.trim: drops the blanks at both ends.
RECURSIVE TrimLeft(_)
TrimLeft(s) ==
  IF s # <<>> /\ Head(s) = " " THEN TrimLeft(Tail(s)) ELSE s

RECURSIVE TrimRight(_)
TrimRight(s) ==
  IF s # <<>> /\ s[Len(s)] = " " THEN TrimRight(SubSeq(s, 1, Len(s) - 1)) ELSE s

NoTrim(s) == s

Trim(s) == TrimRight(TrimLeft(s))

\* String.prototype.split(','): the pieces between commas (always at least one).
RECURSIVE SplitComma(_, _, _)
SplitComma(s, cur, acc) ==
  IF s = <<>> THEN Append(acc, cur)
  ELSE IF Head(s) = "," THEN SplitComma(Tail(s), <<>>, Append(acc, cur))
  ELSE SplitComma(Tail(s), Append(cur, Head(s)), acc)

\* b.slot.split(',').map(s => s.trim())
BookedSlots(slotString) ==
  LET parts == SplitComma(slotString, <<>>, <<>>)
  IN  [i \in 1..Len(parts) |-> Trim(parts[i])]

\* Array.prototype.join(', ')
RECURSIVE JoinCommaSpace(_)
JoinCommaSpace(list) ==
  IF list = <<>> THEN <<>>
  ELSE IF Len(list) = 1 THEN list[1]
  ELSE list[1] \o <<",", " ">> \o JoinCommaSpace(Tail(list))

\* Rank of a slot label in the default (UTF-16 code unit) order of
\* Array.prototype.sort:
\* "14:00-18:00" < "19:00-22:30" < "22:30-23:00" < "23:00-23:30" < "9:00-13:00".
LexRank(label) ==
  IF label = S2 THEN 1 ELSE IF label = S3 THEN 2 ELSE IF label = S4 THEN 3
  ELSE IF label = S5 THEN 4 ELSE 5

\* [...selectedSlots].sort(): insertion sort by LexRank.
RECURSIVE InsertSorted(_, _)
InsertSorted(x, sorted) ==
  IF sorted = <<>> THEN <<x>>
  ELSE IF LexRank(x) < LexRank(Head(sorted)) THEN <<x>> \o sorted
  ELSE <<Head(sorted)>> \o InsertSorted(x, Tail(sorted))

RECURSIVE SortSlots(_)
SortSlots(list) ==
  IF list = <<>> THEN <<>> ELSE InsertSorted(Head(list), SortSlots(Tail(list)))

\* TIME_SLOTS.indexOf(slot): 0-based first position, -1 when absent.
IndexOfSlot(slot) ==
  IF \E i \in 1..Len(catalog) : catalog[i] = slot
  THEN (CHOOSE i \in 1..Len(catalog) :
           catalog[i] = slot /\ \A j \in 1..(i - 1) : catalog[j] # slot) - 1
  ELSE -1

SeqToSet(s) == {s[i] : i \in 1..Len(s)}

\* ------------------------------------------------------- slot-status index
EmptyStatusNone == [t \in {} |-> [count |-> 0, hasLeader |-> FALSE]]

\* TIME_SLOTS.forEach(t => status.set(t, { count: 0, hasLeader: false }))
EmptyStatus == [t \in SeqToSet(catalog) |-> [count |-> 0, hasLeader |-> FALSE]]

\* status.get(s) || { count: 0, hasLeader: false }
StatusGet(status, s) ==
  IF s \in DOMAIN status THEN status[s] ELSE [count |-> 0, hasLeader |-> FALSE]

StatusBumpLastWins(status, s, isLeader) ==
  LET current == StatusGet(status, s)
  IN  [k \in DOMAIN status \cup {s} |->
         IF k = s
         THEN [count |-> current.count + 1, hasLeader |-> isLeader]
         ELSE status[k]]

\* status.set(s, { count: current.count + 1, hasLeader: current.hasLeader || isLeader })
StatusBump(status, s, isLeader) ==
  LET current == StatusGet(status, s)
  IN  [k \in DOMAIN status \cup {s} |->
         IF k = s
         THEN [count |-> current.count + 1,
               hasLeader |-> current.hasLeader \/ isLeader]
         ELSE status[k]]

\* bookedSlots.forEach(s => ...) for one booking
RECURSIVE BumpAll(_, _, _)
BumpAll(status, slots, isLeader) ==
  IF slots = <<>> THEN status
  ELSE BumpAll(StatusBump(status, Head(slots), isLeader), Tail(slots), isLeader)

\* todayBookings.forEach(b => ...)
RECURSIVE FoldBookings(_, _)
FoldBookings(status, todayBookings) ==
  IF todayBookings = <<>> THEN status
  ELSE LET b == Head(todayBookings)
       IN  FoldBookings(BumpAll(status, BookedSlots(b.slot), b.members = "leader"),
                        Tail(todayBookings))

SlotStatusAllDates(existingBookings, d) ==
  FoldBookings(EmptyStatus, existingBookings)

\* The useMemo value slotStatus for (date, existingBookings).
SlotStatus(existingBookings, d) ==
  FoldBookings(EmptyStatus, SelectSeq(existingBookings, LAMBDA b : b.date = d))

\* -------------------------------------------------------------- validation
\* The comparison of stage 3 (capacity): currentStatus.count >= MAX_CAPACITY.
IsFullMutant(currentStatus) == currentStatus.count > MAX_CAPACITY

IsFull(currentStatus) == currentStatus.count >= MAX_CAPACITY

\* The comparison of stage 3 (leader): role === 'leader' && currentStatus.hasLeader.
IsLeaderConflictIgnoresRole(r, currentStatus) == currentStatus.hasLeader

IsLeaderConflictMutant(r, currentStatus) == r = "member" /\ currentStatus.hasLeader

IsLeaderConflict(r, currentStatus) == r = "leader" /\ currentStatus.hasLeader

RECURSIVE SlotLoopNoCapacity(_, _, _)
SlotLoopNoCapacity(slots, status, r) ==
  IF slots = <<>> THEN NoError
  ELSE LET slot == Head(slots)
       IN  IF slot \notin DOMAIN status THEN SlotLoopNoCapacity(Tail(slots), status, r)
           ELSE IF IsLeaderConflict(r, status[slot]) THEN <<"LeaderConflict">> \o slot
           ELSE SlotLoopNoCapacity(Tail(slots), status, r)

\* for (const slot of selectedSlots) { ... }: the first error, or NoError.
RECURSIVE SlotLoop(_, _, _)
SlotLoop(slots, status, r) ==
  IF slots = <<>> THEN NoError
  ELSE LET slot == Head(slots)
       IN  IF slot \notin DOMAIN status THEN SlotLoop(Tail(slots), status, r)
           ELSE IF IsFull(status[slot]) THEN <<"SlotFull">> \o slot
           ELSE IF IsLeaderConflict(r, status[slot]) THEN <<"LeaderConflict">> \o slot
           ELSE SlotLoop(Tail(slots), status, r)

\* existingBookings.filter(date, leader === name.trim(), members === 'leader')
\*                 .flatMap(b => b.slot.split(',').map(s => s.trim()))
RECURSIVE FlatSlots(_)
FlatSlots(bs) ==
  IF bs = <<>> THEN <<>> ELSE BookedSlots(Head(bs).slot) \o FlatSlots(Tail(bs))

ExistingLeaderSlotsAnyRole(existingBookings, d, nm) ==
  FlatSlots(SelectSeq(existingBookings,
              LAMBDA b : b.date = d /\ b.leader = Trim(nm)))

ExistingLeaderSlots(existingBookings, d, nm) ==
  FlatSlots(SelectSeq(existingBookings,
              LAMBDA b : b.date = d /\ b.leader = Trim(nm) /\ b.members = "leader"))

\* .sort((a, b) => a - b) of a duplicate-free list of indices
RECURSIVE SortedSeq(_)
SortedSeq(S) ==
  IF S = {} THEN <<>>
  ELSE LET m == CHOOSE x \in S : \A y \in S : x <= y
       IN  <<m>> \o SortedSeq(S \ {m})

\* Steps 4b-4d: the sorted catalog indices of the projected leader slots
\* contain two consecutive numbers.
HasConsecutiveMutant(existingLeaderSlots, slots) ==
  LET indices == SortedSeq({IndexOfSlot(s) : s \in SeqToSet(existingLeaderSlots)} \ {-1})
  IN  \E i \in 1..(Len(indices) - 1) : indices[i + 1] = indices[i] + 1

HasConsecutiveWithinTwo(existingLeaderSlots, slots) ==
  LET allProjectedLeaderSlots == SeqToSet(existingLeaderSlots) \cup SeqToSet(slots)
      indices == SortedSeq({IndexOfSlot(s) : s \in allProjectedLeaderSlots} \ {-1})
  IN  \E i \in 1..(Len(indices) - 1) : indices[i + 1] <= indices[i] + 2

HasConsecutiveOneWay(existingLeaderSlots, slots) ==
  \E e \in SeqToSet(existingLeaderSlots), t \in SeqToSet(slots) :
     IndexOfSlot(e) # -1 /\ IndexOfSlot(t) = IndexOfSlot(e) + 1

HasConsecutive(existingLeaderSlots, slots) ==
  LET allProjectedLeaderSlots == SeqToSet(existingLeaderSlots) \cup SeqToSet(slots)
      indices == SortedSeq({IndexOfSlot(s) : s \in allProjectedLeaderSlots} \ {-1})
  IN  \E i \in 1..(Len(indices) - 1) : indices[i + 1] = indices[i] + 1

\* Step 5: existingBookings.some(b => same date, same name, a common slot)
IsDuplicateMutant(existingBookings, d, nm, slots) ==
  \E i \in 1..Len(existingBookings) :
     LET b == existingBookings[i]
     IN  /\ b.date = d
         /\ b.leader = nm
         /\ \E j \in 1..Len(BookedSlots(b.slot)) :
               BookedSlots(b.slot)[j] \in SeqToSet(slots)

IsDuplicateMembersOnly(existingBookings, d, nm, slots) ==
  \E i \in 1..Len(existingBookings) :
     LET b == existingBookings[i]
     IN  /\ b.date = d
         /\ b.leader = Trim(nm)
         /\ b.members = "member"
         /\ \E j \in 1..Len(BookedSlots(b.slot)) :
               BookedSlots(b.slot)[j] \in SeqToSet(slots)

IsDuplicate(existingBookings, d, nm, slots) ==
  \E i \in 1..Len(existingBookings) :
     LET b == existingBookings[i]
     IN  /\ b.date = d
         /\ b.leader = Trim(nm)
         /\ \E j \in 1..Len(BookedSlots(b.slot)) :
               BookedSlots(b.slot)[j] \in SeqToSet(slots)

ValidateDuplicateFirst(existingBookings, d, r, nm, slots) ==
  IF Len(slots) = 0 THEN <<"MissingSlot">>
  ELSE IF Trim(nm) = <<>> THEN <<"MissingName">>
  ELSE IF IsDuplicate(existingBookings, d, nm, slots) THEN <<"DuplicateBooking">>
  ELSE LET loopError == SlotLoop(slots, SlotStatus(existingBookings, d), r)
       IN  IF loopError # NoError THEN loopError
           ELSE IF r = "leader"
                   /\ HasConsecutive(ExistingLeaderSlots(existingBookings, d, nm), slots)
                THEN <<"ConsecutiveLeadership">>
           ELSE NoError

\* The validation part of handleSubmit (stages 1 to 5): the error it sets,
\* NoError when every stage passes.
Validate(existingBookings, d, r, nm, slots) ==
  IF Len(slots) = 0 THEN <<"MissingSlot">>
  ELSE IF Trim(nm) = <<>> THEN <<"MissingName">>
  ELSE LET loopError == SlotLoop(slots, SlotStatus(existingBookings, d), r)
       IN  IF loopError # NoError THEN loopError
           ELSE IF r = "leader"
                   /\ HasConsecutive(ExistingLeaderSlots(existingBookings, d, nm), slots)
                THEN <<"ConsecutiveLeadership">>
           ELSE IF IsDuplicate(existingBookings, d, nm, slots)
                THEN <<"DuplicateBooking">>
           ELSE NoError

NewRowUntrimmed(d, r, nm, slots) ==
  [date |-> d, leader |-> nm, members |-> r,
   slot |-> JoinCommaSpace(SortSlots(slots))]

\* The row handleSubmit passes to insert.
NewRow(d, r, nm, slots) ==
  [date |-> d, leader |-> Trim(nm), members |-> r,
   slot |-> JoinCommaSpace(SortSlots(slots))]

\* ------------------------------------------------------------------- reads

\* A read in flight: sent, or answered by the store with data on its way back.
SentFetch == [read |-> FALSE, data |-> <<>>]

\* select('*').order('date', { ascending: false }): a stable sort, later dates first.
RECURSIVE OrderByDateDesc(_)
OrderByDateDesc(rows) ==
  IF rows = <<>> THEN <<>>
  ELSE LET rest == OrderByDateDesc(Tail(rows))
           r    == Head(rows)
           k    == Cardinality({i \in 1..Len(rest) : rest[i].date > r.date})
       IN  SubSeq(rest, 1, k) \o <<r>> \o SubSeq(rest, k + 1, Len(rest))

RemoveAt(s, i) == SubSeq(s, 1, i - 1) \o SubSeq(s, i + 1, Len(s))

\* Rows already stored or on their way to the store.
Committed == Len(store) + Cardinality({c \in Clients : inserting[c] # <<>>})

\* ------------------------------------------------------------ history view
\* HistoryList renders the snapshot it is handed.  A date is an integer; its
\* 'yyyy-MM-dd' text is one token.

\* today at midnight (defaultDate = today + 2 days)
Today == DefaultDate - 2

\* format(d, 'yyyy-MM-dd')
DateStr(d) == <<ToString(d)>>

\* validDates = [today, tomorrow, dayAfterTomorrow]
ValidDates == <<Today, Today + 1, Today + 2>>

\* validDates.some(d => format(d, 'yyyy-MM-dd') === booking.date)
IsInRange(booking) ==
  \E i \in 1..Len(ValidDates) : DateStr(ValidDates[i]) = DateStr(booking.date)

\* slotStr.match(/^(\d+):/): the hour a label starts with, 99 when it has none.
GetSlotStartHour(slotStr) ==
  IF slotStr = S1 THEN 9
  ELSE IF slotStr = S2 THEN 14
  ELSE IF slotStr = S3 THEN 19
  ELSE IF slotStr = S4 THEN 22
  ELSE IF slotStr = S5 THEN 23
  ELSE IF slotStr = <<"8:00-9:00">> THEN 8
  ELSE 99

\* `${booking.date}|${slotTime}`
GroupKey(booking, slotTime) == DateStr(booking.date) \o <<"|">> \o slotTime

\* key.split('|'): the pieces between bars (always at least one).
RECURSIVE SplitBar(_, _, _)
SplitBar(s, cur, acc) ==
  IF s = <<>> THEN Append(acc, cur)
  ELSE IF Head(s) = "|" THEN SplitBar(Tail(s), <<>>, Append(acc, cur))
  ELSE SplitBar(Tail(s), Append(cur, Head(s)), acc)

\* groupingMap is a sequence of groups in the order their keys were first
\* set.  leader: string | null is <<>> for null and <<nm>> for the name nm.
\* groupingMap.get(key): the index of the group of key, 0 when it has none.
GroupIndex(map, key) ==
  IF \E i \in 1..Len(map) : map[i].key = key
  THEN CHOOSE i \in 1..Len(map) : map[i].key = key
  ELSE 0

\* The body of slots.forEach: one reservation enters the group of one slot.
GroupSlot(map, booking, slotTime) ==
  LET key     == GroupKey(booking, slotTime)
      i       == GroupIndex(map, key)
      current == IF i = 0
                 THEN [key |-> key, dateObj |-> booking.date,
                       leader |-> <<>>, members |-> <<>>]
                 ELSE map[i]
      updated == IF booking.members = "leader"
                 THEN [current EXCEPT !.leader = <<booking.leader>>]
                 ELSE [current EXCEPT !.members = Append(@, booking.leader)]
  IN  IF i = 0 THEN Append(map, updated) ELSE [map EXCEPT ![i] = updated]

RECURSIVE GroupSlots(_, _, _)
GroupSlots(map, booking, slots) ==
  IF slots = <<>> THEN map
  ELSE GroupSlots(GroupSlot(map, booking, Head(slots)), booking, Tail(slots))

\* bookings.forEach(booking => ...) over the rows of the valid dates.
RECURSIVE GroupBookings(_, _)
GroupBookings(map, rows) ==
  IF rows = <<>> THEN map
  ELSE LET booking == Head(rows)
       IN  GroupBookings(IF IsInRange(booking)
                         THEN GroupSlots(map, booking, BookedSlots(booking.slot))
                         ELSE map,
                         Tail(rows))

GroupingMap(rows) == GroupBookings(<<>>, rows)

\* val.leader || val.members.length > 0: null and '' are both falsy.
HasAnyone(val) ==
  \/ val.leader # <<>> /\ val.leader[1] # <<>>
  \/ Len(val.members) > 0

\* One AggregatedSlot of a group: [dateStr, slotTime] = key.split('|').
AggregatedSlot(val) ==
  LET pieces == SplitBar(val.key, <<>>, <<>>)
  IN  [id |-> val.key, dateStr |-> pieces[1], dateObj |-> val.dateObj,
       slotTime |-> IF Len(pieces) > 1 THEN pieces[2] ELSE <<>>,
       leader |-> val.leader, members |-> val.members]

\* groupingMap.forEach((val, key) => ...)
RECURSIVE PushGroups(_)
PushGroups(map) ==
  IF map = <<>> THEN <<>>
  ELSE IF HasAnyone(Head(map))
       THEN <<AggregatedSlot(Head(map))>> \o PushGroups(Tail(map))
       ELSE PushGroups(Tail(map))

\* The comparator of aggregatedSlots.sort: a goes before b.  'yyyy-MM-dd'
\* texts compare as the days they name.
SlotBefore(a, b) ==
  IF a.dateStr # b.dateStr THEN a.dateObj < b.dateObj
  ELSE GetSlotStartHour(a.slotTime) < GetSlotStartHour(b.slotTime)

\* Array.prototype.sort with that comparator: a stable sort.
RECURSIVE SortAggregated(_)
SortAggregated(list) ==
  IF list = <<>> THEN <<>>
  ELSE LET rest == SortAggregated(Tail(list))
           a    == Head(list)
           k    == Cardinality({i \in 1..Len(rest) : SlotBefore(rest[i], a)})
       IN  SubSeq(rest, 1, k) \o <<a>> \o SubSeq(rest, k + 1, Len(rest))

AggregatedSlots(rows) == SortAggregated(PushGroups(GroupingMap(rows)))

\* validDates.forEach(d => ...): one group per valid date that has entries.
RECURSIVE GroupByDate(_, _)
GroupByDate(dates, aggregated) ==
  IF dates = <<>> THEN <<>>
  ELSE LET d           == Head(dates)
           slotsForDay == SelectSeq(aggregated, LAMBDA s : s.dateStr = DateStr(d))
       IN  (IF Len(slotsForDay) > 0
            THEN <<[dateStr |-> DateStr(d), dateObj |-> d, slots |-> slotsForDay]>>
            ELSE <<>>)
           \o GroupByDate(Tail(dates), aggregated)

DisplayGroups(rows) == GroupByDate(ValidDates, AggregatedSlots(rows))

\* What the list of client c shows: nothing but a spinner while loading.
HistoryList(c) == IF loading[c] THEN <<>> ELSE DisplayGroups(bookings[c])

\* -------------------------------------------------------------------- Init
\* State after the first render: useState defaults, and the read started by
\* the mount effect of App in flight.
Init ==
  /\ catalog = TIME_SLOTS
  /\ store = <<>>
  /\ bookings = [c \in Clients |-> <<>>]
  /\ loading = [c \in Clients |-> TRUE]
  /\ fetches = [c \in Clients |-> <<SentFetch>>]
  /\ date = [c \in Clients |-> DefaultDate]
  /\ role = [c \in Clients |-> "member"]
  /\ name = [c \in Clients |-> <<>>]
  /\ selectedSlots = [c \in Clients |-> <<>>]
  /\ isSubmitting = [c \in Clients |-> FALSE]
  /\ error = [c \in Clients |-> NoError]
  /\ inserting = [c \in Clients |-> <<>>]

\* ----------------------------------------------------------------- actions
SetDateKeepsSelection(c, d) ==
  /\ d # date[c]
  /\ date' = [date EXCEPT ![c] = d]
  /\ UNCHANGED <<catalog, store, bookings, loading, fetches, role, name, selectedSlots,
                 isSubmitting, error, inserting>>

\* Date input onChange.
SetDate(c, d) ==
  /\ d # date[c]
  /\ date' = [date EXCEPT ![c] = d]
  /\ selectedSlots' = [selectedSlots EXCEPT ![c] = <<>>]
  /\ UNCHANGED <<catalog, store, bookings, loading, fetches, role, name, isSubmitting,
                 error, inserting>>

\* Role buttons onClick.
SetRole(c, r) ==
  /\ role' = [role EXCEPT ![c] = r]
  /\ UNCHANGED <<catalog, store, bookings, loading, fetches, date, name, selectedSlots,
                 isSubmitting, error, inserting>>

\* Name input onChange (typing, or picking a suggestion).
SetName(c, nm) ==
  /\ nm # name[c]
  /\ name' = [name EXCEPT ![c] = nm]
  /\ UNCHANGED <<catalog, store, bookings, loading, fetches, date, role, selectedSlots,
                 isSubmitting, error, inserting>>

ToggleSlotMulti(c, slot) ==
  LET slotStatus == SlotStatus(bookings[c], date[c])
  IN  /\ slot \in SeqToSet(catalog)
      /\ slot \in DOMAIN slotStatus
      /\ ~(slotStatus[slot].count >= MAX_CAPACITY)
      /\ selectedSlots' = [selectedSlots EXCEPT ![c] =
            IF slot \in SeqToSet(selectedSlots[c])
            THEN SelectSeq(selectedSlots[c], LAMBDA t : t # slot)
            ELSE Append(selectedSlots[c], slot)]
      /\ UNCHANGED <<catalog, store, bookings, loading, fetches, date, role, name,
                     isSubmitting, error, inserting>>

\* toggleSlot, called by the button of a catalog slot.
ToggleSlot(c, slot) ==
  LET slotStatus == SlotStatus(bookings[c], date[c])
  IN  /\ slot \in SeqToSet(catalog)
      /\ slot \in DOMAIN slotStatus
      /\ ~(slotStatus[slot].count >= MAX_CAPACITY)
      /\ selectedSlots' = [selectedSlots EXCEPT ![c] =
            IF slot \in SeqToSet(selectedSlots[c]) THEN <<>> ELSE <<slot>>]
      /\ UNCHANGED <<catalog, store, bookings, loading, fetches, date, role, name,
                     isSubmitting, error, inserting>>

CanSubmitWhileSubmitting(c) == name[c] # <<>>

\* The browser calls handleSubmit when the submit button is enabled
\* (disabled={isSubmitting}) and the required name input is not empty; a name
\* of blanks passes that test.
CanSubmit(c) ==
  /\ ~isSubmitting[c]
  /\ name[c] # <<>>

HandleSubmitClearsSelection(c) ==
  LET verdict == Validate(bookings[c], date[c], role[c], name[c], selectedSlots[c])
  IN  /\ CanSubmit(c)
      /\ error' = [error EXCEPT ![c] = verdict]
      /\ IF verdict # NoError
         THEN /\ selectedSlots' = [selectedSlots EXCEPT ![c] = <<>>]
              /\ UNCHANGED <<isSubmitting, inserting>>
         ELSE /\ isSubmitting' = [isSubmitting EXCEPT ![c] = TRUE]
              /\ inserting' = [inserting EXCEPT ![c] =
                    <<NewRow(date[c], role[c], name[c], selectedSlots[c])>>]
              /\ UNCHANGED selectedSlots
      /\ UNCHANGED <<catalog, store, bookings, loading, fetches, date, role, name>>

\* handleSubmit up to its await: validation, then the insert call.
HandleSubmit(c) ==
  LET verdict == Validate(bookings[c], date[c], role[c], name[c], selectedSlots[c])
  IN  /\ CanSubmit(c)
      /\ error' = [error EXCEPT ![c] = verdict]
      /\ IF verdict # NoError
         THEN UNCHANGED <<isSubmitting, inserting>>
         ELSE /\ isSubmitting' = [isSubmitting EXCEPT ![c] = TRUE]
              /\ inserting' = [inserting EXCEPT ![c] =
                    <<NewRow(date[c], role[c], name[c], selectedSlots[c])>>]
      /\ UNCHANGED <<catalog, store, bookings, loading, fetches, formVars>>

StoreUpsert(table, rows) ==
  SelectSeq(table, LAMBDA old : \A i \in 1..Len(rows) :
                       old.date # rows[i].date \/ old.slot # rows[i].slot) \o rows

\* The store's insert: rows appended.  It puts no condition on what the table
\* already holds.
StoreInsert(table, rows) == table \o rows

StoreAcceptsGuarded(table, rows) ==
  \A i \in 1..Len(rows) :
     /\ Cardinality({j \in 1..Len(table) :
            table[j].date = rows[i].date /\ table[j].slot = rows[i].slot}) < MAX_CAPACITY
     /\ rows[i].members = "leader" =>
           ~\E j \in 1..Len(table) :
               /\ table[j].date = rows[i].date
               /\ table[j].slot = rows[i].slot
               /\ table[j].members = "leader"

StoreAccepts(table, rows) == TRUE

InsertOkStaysSubmitting(c) ==
  /\ inserting[c] # <<>>
  /\ StoreAccepts(store, inserting[c])
  /\ store' = StoreInsert(store, inserting[c])
  /\ inserting' = [inserting EXCEPT ![c] = <<>>]
  /\ name' = [name EXCEPT ![c] = <<>>]
  /\ selectedSlots' = [selectedSlots EXCEPT ![c] = <<>>]
  /\ role' = [role EXCEPT ![c] = "member"]
  /\ loading' = [loading EXCEPT ![c] = TRUE]
  /\ fetches' = [fetches EXCEPT ![c] = Append(@, SentFetch)]
  /\ UNCHANGED <<catalog, bookings, date, error, isSubmitting>>

InsertOkNoRefresh(c) ==
  /\ inserting[c] # <<>>
  /\ StoreAccepts(store, inserting[c])
  /\ store' = StoreInsert(store, inserting[c])
  /\ inserting' = [inserting EXCEPT ![c] = <<>>]
  /\ name' = [name EXCEPT ![c] = <<>>]
  /\ selectedSlots' = [selectedSlots EXCEPT ![c] = <<>>]
  /\ role' = [role EXCEPT ![c] = "member"]
  /\ isSubmitting' = [isSubmitting EXCEPT ![c] = FALSE]
  /\ UNCHANGED <<catalog, bookings, loading, fetches, date, error>>

\* The insert succeeds; handleSubmit resumes after its await: form reset,
\* onSuccess() (fetchBookings starts a read), finally-block.
InsertOk(c) ==
  /\ inserting[c] # <<>>
  /\ StoreAccepts(store, inserting[c])
  /\ store' = StoreInsert(store, inserting[c])
  /\ inserting' = [inserting EXCEPT ![c] = <<>>]
  /\ name' = [name EXCEPT ![c] = <<>>]
  /\ selectedSlots' = [selectedSlots EXCEPT ![c] = <<>>]
  /\ role' = [role EXCEPT ![c] = "member"]
  /\ loading' = [loading EXCEPT ![c] = TRUE]
  /\ fetches' = [fetches EXCEPT ![c] = Append(@, SentFetch)]
  /\ isSubmitting' = [isSubmitting EXCEPT ![c] = FALSE]
  /\ UNCHANGED <<catalog, bookings, date, error>>

InsertErrorRefreshes(c) ==
  /\ inserting[c] # <<>>
  /\ inserting' = [inserting EXCEPT ![c] = <<>>]
  /\ error' = [error EXCEPT ![c] = <<"StoreError">>]
  /\ isSubmitting' = [isSubmitting EXCEPT ![c] = FALSE]
  /\ loading' = [loading EXCEPT ![c] = TRUE]
  /\ fetches' = [fetches EXCEPT ![c] = Append(@, SentFetch)]
  /\ UNCHANGED <<catalog, store, bookings, formVars>>

\* The insert returns an error; handleSubmit resumes in its catch-block.
InsertError(c) ==
  /\ inserting[c] # <<>>
  /\ inserting' = [inserting EXCEPT ![c] = <<>>]
  /\ error' = [error EXCEPT ![c] = <<"StoreError">>]
  /\ isSubmitting' = [isSubmitting EXCEPT ![c] = FALSE]
  /\ UNCHANGED <<catalog, store, bookings, loading, fetches, formVars>>

\* The store answers a read with its rows at that moment.
FetchRead(c, i) ==
  /\ i \in 1..Len(fetches[c])
  /\ ~fetches[c][i].read
  /\ fetches' = [fetches EXCEPT ![c][i] = [read |-> TRUE, data |-> OrderByDateDesc(store)]]
  /\ UNCHANGED <<catalog, store, bookings, loading, formVars, isSubmitting, error, inserting>>

\* fetchBookings resumes with data: setBookings(data), setLoading(false).
FetchReturn(c, i) ==
  /\ i \in 1..Len(fetches[c])
  /\ fetches[c][i].read
  /\ bookings' = [bookings EXCEPT ![c] = fetches[c][i].data]
  /\ loading' = [loading EXCEPT ![c] = FALSE]
  /\ fetches' = [fetches EXCEPT ![c] = RemoveAt(@, i)]
  /\ UNCHANGED <<catalog, store, formVars, isSubmitting, error, inserting>>

FetchFailClearsSnapshot(c, i) ==
  /\ i \in 1..Len(fetches[c])
  /\ bookings' = [bookings EXCEPT ![c] = <<>>]
  /\ loading' = [loading EXCEPT ![c] = FALSE]
  /\ fetches' = [fetches EXCEPT ![c] = RemoveAt(@, i)]
  /\ UNCHANGED <<catalog, store, formVars, isSubmitting, error, inserting>>

\* fetchBookings resumes with an error result or an exception: setLoading(false).
FetchFail(c, i) ==
  /\ i \in 1..Len(fetches[c])
  /\ loading' = [loading EXCEPT ![c] = FALSE]
  /\ fetches' = [fetches EXCEPT ![c] = RemoveAt(@, i)]
  /\ UNCHANGED <<catalog, store, bookings, formVars, isSubmitting, error, inserting>>

\* ---------------------------------------------------------- specifications
\* The bounds of a run: a submission is admitted only while the store has room
\* for its row and the client has room for the read that follows the insert.
WithinBounds(c, maxRows, maxFetch) ==
  inserting'[c] # <<>> => (Committed < maxRows /\ Len(fetches[c]) < maxFetch)

NameA == <<"A">>
NameB == <<"B">>
\* In the two-client specifications client c1 is used by A and c2 by B.
UserName(c) == IF c = "c1" THEN NameA ELSE NameB

\* Spec: two clients race on one slot of the default date; the store starts
\* empty.  Each types its user's name and clicks S1, with either role.
Next ==
  \E c \in Clients :
     \/ \E r \in Roles : SetRole(c, r)
     \/ SetName(c, UserName(c))
     \/ ToggleSlot(c, S1)
     \/ HandleSubmit(c) /\ WithinBounds(c, MaxRace, RaceFetch)
     \/ InsertOk(c)
     \/ InsertError(c)
     \/ \E i \in 1..RaceFetch : FetchRead(c, i)
     \/ \E i \in 1..RaceFetch : FetchReturn(c, i)
     \/ \E i \in 1..RaceFetch : FetchFail(c, i)

Spec == Init /\ [][Next]_vars

\* SpecCapacity: two clients book one slot as members until the store holds
\* MaxStore rows; the store starts empty.
NextCapacity ==
  \E c \in Clients :
     \/ SetName(c, UserName(c))
     \/ ToggleSlot(c, S1)
     \/ HandleSubmit(c) /\ WithinBounds(c, MaxStore, RaceFetch)
     \/ InsertOk(c)
     \/ InsertError(c)
     \/ \E i \in 1..RaceFetch : FetchRead(c, i)
     \/ \E i \in 1..RaceFetch : FetchReturn(c, i)
     \/ \E i \in 1..RaceFetch : FetchFail(c, i)

SpecCapacity == Init /\ [][NextCapacity]_vars

\* SpecSolo: one client uses the whole form (two dates, the three catalog
\* slots, both roles, a name with a leading blank); the store starts empty.
NameBlankA == <<" ", "A">>
NameBlank == <<" ">>
SoloNames == {NameBlankA}
SoloDates == {DefaultDate, DefaultDate + 1}

NextSolo ==
  \E c \in {"c1"} :
     \/ \E d \in SoloDates : SetDate(c, d)
     \/ \E r \in Roles : SetRole(c, r)
     \/ \E nm \in SoloNames : SetName(c, nm)
     \/ \E slot \in SeqToSet(TIME_SLOTS) : ToggleSlot(c, slot)
     \/ HandleSubmit(c) /\ WithinBounds(c, MaxSolo, MaxFetch)
     \/ InsertOk(c)
     \/ InsertError(c)
     \/ \E i \in 1..MaxFetch : FetchRead(c, i)
     \/ \E i \in 1..MaxFetch : FetchReturn(c, i)
     \/ \E i \in 1..MaxFetch : FetchFail(c, i)

SpecSolo == Init /\ [][NextSolo]_vars

\* SpecValidate: the requests and the reservation histories of validation.
\* The store holds a history of the default date (rows written by earlier
\* clients, one order for each multiset of rows).  Client c1 has read it and has
\* filled the form: any date, role, typed name and selection (a slot may have
\* been selected before the read returned, so also one the snapshot shows
\* full).  It then submits.
HistRows ==
  [date : {DefaultDate}, leader : {NameA, NameB}, members : Roles,
   slot : SeqToSet(TIME_SLOTS)]

\* One fixed enumeration of HistRows.
RECURSIVE Enumerate(_)
Enumerate(S) ==
  IF S = {} THEN <<>>
  ELSE LET x == CHOOSE y \in S : TRUE IN <<x>> \o Enumerate(S \ {x})

HistRowList == Enumerate(HistRows)

Histories ==
  UNION {{[i \in 1..n |-> HistRowList[f[i]]] :
            f \in {g \in [1..n -> 1..Len(HistRowList)] :
                     \A i \in 1..(n - 1) : g[i] <= g[i + 1]}} : n \in 0..MaxHist}

ValidateNames == {NameA, NameBlankA, NameBlank}
Selections == {<<>>} \cup {<<t>> : t \in SeqToSet(TIME_SLOTS)}

InitValidate ==
  /\ catalog = TIME_SLOTS
  /\ store \in Histories
  /\ bookings = [c \in Clients |-> IF c = "c1" THEN OrderByDateDesc(store) ELSE <<>>]
  /\ loading = [c \in Clients |-> c # "c1"]
  /\ fetches = [c \in Clients |-> IF c = "c1" THEN <<>> ELSE <<SentFetch>>]
  /\ \E d \in SoloDates : date = [c \in Clients |-> IF c = "c1" THEN d ELSE DefaultDate]
  /\ \E r \in Roles : role = [c \in Clients |-> IF c = "c1" THEN r ELSE "member"]
  /\ \E nm \in ValidateNames : name = [c \in Clients |-> IF c = "c1" THEN nm ELSE <<>>]
  /\ \E sel \in Selections :
        selectedSlots = [c \in Clients |-> IF c = "c1" THEN sel ELSE <<>>]
  /\ isSubmitting = [c \in Clients |-> FALSE]
  /\ error = [c \in Clients |-> NoError]
  /\ inserting = [c \in Clients |-> <<>>]

NextValidate ==
  \E c \in {"c1"} :
     \/ HandleSubmit(c) /\ WithinBounds(c, MaxHist + 1, MaxFetch)
     \/ InsertOk(c)
     \/ InsertError(c)
     \/ \E i \in 1..MaxFetch : FetchRead(c, i)
     \/ \E i \in 1..MaxFetch : FetchReturn(c, i)
     \/ \E i \in 1..MaxFetch : FetchFail(c, i)

SpecValidate == InitValidate /\ [][NextValidate]_vars

\* SpecCatalog: validation under other slot catalogs (the catalog is static
\* configuration).  The catalog is TIME_SLOTS cut short or extended by later
\* blocks; the store holds a history of user A on the default date; client c1
\* has read it and filled the form as A, then submits.
CatalogLabels == <<S1, S2, S3, S4, S5>>
Catalogs == {SubSeq(CatalogLabels, 1, n) : n \in 1..MaxCatalog}

LedRows(cat) ==
  [date : {DefaultDate}, leader : {NameA}, members : Roles, slot : SeqToSet(cat)]

\* The histories of at most maxLen rows drawn from rowList, one order for each
\* multiset of rows.
HistoriesOf(rowList, maxLen) ==
  UNION {{[i \in 1..n |-> rowList[f[i]]] :
            f \in {g \in [1..n -> 1..Len(rowList)] :
                     \A i \in 1..(n - 1) : g[i] <= g[i + 1]}} : n \in 0..maxLen}

InitCatalog ==
  /\ catalog \in Catalogs
  /\ store \in HistoriesOf(Enumerate(LedRows(catalog)), MaxLed)
  /\ bookings = [c \in Clients |-> IF c = "c1" THEN OrderByDateDesc(store) ELSE <<>>]
  /\ loading = [c \in Clients |-> c # "c1"]
  /\ fetches = [c \in Clients |-> IF c = "c1" THEN <<>> ELSE <<SentFetch>>]
  /\ date = [c \in Clients |-> DefaultDate]
  /\ \E r \in Roles : role = [c \in Clients |-> IF c = "c1" THEN r ELSE "member"]
  /\ name = [c \in Clients |-> IF c = "c1" THEN NameA ELSE <<>>]
  /\ \E sel \in {<<>>} \cup {<<t>> : t \in SeqToSet(catalog)} :
        selectedSlots = [c \in Clients |-> IF c = "c1" THEN sel ELSE <<>>]
  /\ isSubmitting = [c \in Clients |-> FALSE]
  /\ error = [c \in Clients |-> NoError]
  /\ inserting = [c \in Clients |-> <<>>]

NextCatalog ==
  \E c \in {"c1"} :
     \/ HandleSubmit(c) /\ WithinBounds(c, MaxLed + 1, MaxFetch)
     \/ InsertOk(c)
     \/ InsertError(c)
     \/ \E i \in 1..MaxFetch : FetchRead(c, i)
     \/ \E i \in 1..MaxFetch : FetchReturn(c, i)
     \/ \E i \in 1..MaxFetch : FetchFail(c, i)

SpecCatalog == InitCatalog /\ [][NextCatalog]_vars


\* SpecIndex: the slot-status index over reservation sets.  The store holds
\* rows of two dates, among them rows of the earlier multi-select form (a
\* comma-joined slot string) and rows with a label that is not in the catalog,
\* none for the last catalog slot; client c1 has read it, picks a date and
\* clicks slots.
LegacySlots == S1 \o <<",", " ">> \o S2
OtherSlot == <<"8:00-9:00">>

IndexRows ==
  [date : SoloDates, leader : {NameA}, members : Roles,
   slot : {S1, S2, LegacySlots, OtherSlot}]

InitIndex ==
  /\ catalog = TIME_SLOTS
  /\ store \in HistoriesOf(Enumerate(IndexRows), MaxHist)
  /\ bookings = [c \in Clients |-> IF c = "c1" THEN OrderByDateDesc(store) ELSE <<>>]
  /\ loading = [c \in Clients |-> c # "c1"]
  /\ fetches = [c \in Clients |-> IF c = "c1" THEN <<>> ELSE <<SentFetch>>]
  /\ date = [c \in Clients |-> DefaultDate]
  /\ role = [c \in Clients |-> "member"]
  /\ name = [c \in Clients |-> <<>>]
  /\ selectedSlots = [c \in Clients |-> <<>>]
  /\ isSubmitting = [c \in Clients |-> FALSE]
  /\ error = [c \in Clients |-> NoError]
  /\ inserting = [c \in Clients |-> <<>>]

NextIndex ==
  \E c \in {"c1"} :
     \/ \E d \in SoloDates : SetDate(c, d)
     \/ \E slot \in SeqToSet(catalog) : ToggleSlot(c, slot)

SpecIndex == InitIndex /\ [][NextIndex]_vars


\* SpecSerial: submissions without stale reads.  A submission is validated
\* only against a snapshot that is the store's contents, with no insert out,
\* so that its insert is the next write.  The store starts with any set of
\* reservations that serial admissions produce from an empty store (a set
\* with the four store properties is admitted row by row in any order); the
\* one client has read it and filled the form, for user A or D, and submits.
NameC == <<"C">>
NameD == <<"D">>

Position(slot) == IndexOfSlot(slot) + 1

StoreProperties(rows) ==
  \A i, j \in 1..Len(rows) :
     /\ Cardinality({k \in 1..Len(rows) :
           rows[k].date = rows[i].date /\ rows[k].slot = rows[i].slot}) <= MAX_CAPACITY
     /\ (/\ rows[i].date = rows[j].date /\ rows[i].slot = rows[j].slot
         /\ rows[i].members = "leader" /\ rows[j].members = "leader") => i = j
     /\ (/\ rows[i].date = rows[j].date /\ rows[i].leader = rows[j].leader
         /\ rows[i].members = "leader" /\ rows[j].members = "leader") =>
           Position(rows[i].slot) # Position(rows[j].slot) + 1
     /\ (/\ rows[i].date = rows[j].date /\ rows[i].slot = rows[j].slot
         /\ rows[i].leader = rows[j].leader) => i = j

SerialRows ==
  [date : {DefaultDate}, leader : {NameA, NameB, NameC}, members : Roles,
   slot : SeqToSet(TIME_SLOTS)]

SerialNames == {NameA, NameD}

\* The snapshot of client c is the store's contents and no insert is out.
Fresh(c) ==
  /\ bookings[c] = OrderByDateDesc(store)
  /\ \A k \in Clients : inserting[k] = <<>>

InitSerial ==
  /\ catalog = TIME_SLOTS
  /\ store \in {h \in HistoriesOf(Enumerate(SerialRows), MaxSerial) : StoreProperties(h)}
  /\ bookings = [c \in Clients |-> IF c = "c1" THEN OrderByDateDesc(store) ELSE <<>>]
  /\ loading = [c \in Clients |-> c # "c1"]
  /\ fetches = [c \in Clients |-> IF c = "c1" THEN <<>> ELSE <<SentFetch>>]
  /\ date = [c \in Clients |-> DefaultDate]
  /\ \E r \in Roles : role = [c \in Clients |-> IF c = "c1" THEN r ELSE "member"]
  /\ \E nm \in SerialNames : name = [c \in Clients |-> IF c = "c1" THEN nm ELSE <<>>]
  /\ \E sel \in Selections :
        selectedSlots = [c \in Clients |-> IF c = "c1" THEN sel ELSE <<>>]
  /\ isSubmitting = [c \in Clients |-> FALSE]
  /\ error = [c \in Clients |-> NoError]
  /\ inserting = [c \in Clients |-> <<>>]

NextSerial ==
  \E c \in {"c1"} :
     \/ HandleSubmit(c) /\ Fresh(c) /\ WithinBounds(c, MaxSerial + 1, MaxFetch)
     \/ InsertOk(c)
     \/ \E i \in 1..MaxFetch : FetchRead(c, i)
     \/ \E i \in 1..MaxFetch : FetchReturn(c, i)

SpecSerial == InitSerial /\ [][NextSerial]_vars


\* SpecLive: SpecValidate with the store's insert call returning: an insert
\* call that is out eventually succeeds or fails (the call is awaited, the
\* store answers it).
SpecLive ==
  /\ InitValidate
  /\ [][NextValidate]_vars
  /\ \A c \in Clients : WF_vars(InsertOk(c) \/ InsertError(c))


\* ------------------------------------------------------------------ claims
\* Vocabulary of the claims.  In the specifications that start from an empty
\* store every row holds one catalog label, so a row occupies (d, slot) when
\* its date is d and its slot string is the label.
Labels == SeqToSet(TIME_SLOTS)
AllDates == SoloDates
AllNames == {NameA, NameB}

RowsAt(rows, d, slot) ==
  {i \in 1..Len(rows) : rows[i].date = d /\ rows[i].slot = slot}

LeadersAt(rows, d, slot) ==
  {i \in RowsAt(rows, d, slot) : rows[i].members = "leader"}

\* Catalog positions (from 1) of the slots nm leads on d according to rows.
LedPositions(rows, d, nm) ==
  {p \in 1..Len(catalog) :
     \E i \in LeadersAt(rows, d, catalog[p]) : rows[i].leader = nm}

\* handleSubmit admits: this step starts client c's insert call.
Admits(c) == inserting[c] = <<>> /\ inserting'[c] # <<>>

\* C1 as stated: in every reachable state every (date, slot) pair holds at
\* most MAX_CAPACITY stored reservations.
C1_CapacityInvariant ==
  \A d \in AllDates, slot \in Labels :
     Cardinality(RowsAt(store, d, slot)) <= MAX_CAPACITY

\* C1 amended: every submission that handleSubmit admits is for a (date, slot)
\* pair that holds fewer than MAX_CAPACITY reservations in the submitting
\* client's snapshot at that moment.
C1_AdmitsBelowCapacity ==
  [][\A c \in Clients :
        Admits(c) =>
          LET row == inserting'[c][1]
          IN  Cardinality(RowsAt(bookings[c], row.date, row.slot)) < MAX_CAPACITY]_vars

\* C1 witness: an admitted insert for a pair whose last free place the
\* client's snapshot shows (MAX_CAPACITY - 1 reservations).
C1_Witness ==
  \E c \in Clients :
     /\ inserting[c] # <<>>
     /\ Cardinality(RowsAt(bookings[c], inserting[c][1].date, inserting[c][1].slot))
          = MAX_CAPACITY - 1

\* C2 as stated: in every reachable state every (date, slot) pair holds at
\* most one stored reservation with role leader.
C2_LeaderInvariant ==
  \A d \in AllDates, slot \in Labels :
     Cardinality(LeadersAt(store, d, slot)) <= 1

\* C2 amended: every leader submission that handleSubmit admits is for a
\* (date, slot) pair that has no leader reservation in the submitting client's
\* snapshot at that moment.
C2_AdmitsWithoutLeader ==
  [][\A c \in Clients :
        (Admits(c) /\ inserting'[c][1].members = "leader") =>
          LET row == inserting'[c][1]
          IN  LeadersAt(bookings[c], row.date, row.slot) = {}]_vars

\* C2 witness: a leader insert admitted for a pair that the snapshot shows
\* occupied, but by no leader.
C2_Witness ==
  \E c \in Clients :
     /\ inserting[c] # <<>>
     /\ inserting[c][1].members = "leader"
     /\ RowsAt(bookings[c], inserting[c][1].date, inserting[c][1].slot) # {}
     /\ LeadersAt(bookings[c], inserting[c][1].date, inserting[c][1].slot) = {}

\* C3 as stated: in every reachable state no booker holds two stored leader
\* reservations on one date at adjacent positions of the slot catalog.
C3_AdjacentInvariant ==
  \A d \in AllDates, nm \in AllNames :
     ~\E p \in LedPositions(store, d, nm) : p + 1 \in LedPositions(store, d, nm)

\* C3 amended: every leader submission that handleSubmit admits is for a slot
\* that is not adjacent, in the catalog, to a slot the booker leads on that date
\* according to the submitting client's snapshot at that moment.
C3_AdmitsNonAdjacent ==
  [][\A c \in Clients :
        (Admits(c) /\ inserting'[c][1].members = "leader") =>
          LET row == inserting'[c][1]
              led == LedPositions(bookings[c], row.date, row.leader)
          IN  \A p \in 1..Len(TIME_SLOTS) :
                 TIME_SLOTS[p] = row.slot => (p - 1 \notin led /\ p + 1 \notin led)]_vars

\* C3 witness: a leader insert admitted for a booker whom the snapshot shows
\* leading another slot of that date.
C3_Witness ==
  \E c \in Clients :
     /\ inserting[c] # <<>>
     /\ inserting[c][1].members = "leader"
     /\ LedPositions(bookings[c], inserting[c][1].date, inserting[c][1].leader) # {}

\* C4 as stated: the store never holds two reservations with the same booker
\* name, date and slot.
C4_DuplicateInvariant ==
  \A i, j \in 1..Len(store) :
     (/\ store[i].leader = store[j].leader
      /\ store[i].date = store[j].date
      /\ store[i].slot = store[j].slot) => i = j

\* C4 amended: every submission that handleSubmit admits is for a (name, date,
\* slot) triple that no reservation of the submitting client's snapshot has at
\* that moment.
C4_AdmitsNonDuplicate ==
  [][\A c \in Clients :
        Admits(c) =>
          LET row == inserting'[c][1]
          IN  ~\E i \in RowsAt(bookings[c], row.date, row.slot) :
                 bookings[c][i].leader = row.leader]_vars

\* C4 witness: an insert admitted for a booker who, in the snapshot, already
\* has a reservation on that date (on another slot).
C4_Witness ==
  \E c \in Clients :
     /\ inserting[c] # <<>>
     /\ \E i \in 1..Len(bookings[c]) :
           /\ bookings[c][i].leader = inserting[c][1].leader
           /\ bookings[c][i].date = inserting[c][1].date

\* C5: the checks are advisory across clients: whatever the store holds, an
\* insert that handleSubmit has issued can be accepted; in particular when two
\* clients have both been admitted for the same (date, slot).
C5_InsertUnconditional ==
  \A c \in Clients : inserting[c] # <<>> => ENABLED InsertOk(c)

\* C5 witness: both clients admitted, as leader, for the same (date, slot),
\* neither insert applied yet.
C5_Witness ==
  /\ \A c \in Clients : inserting[c] # <<>> /\ inserting[c][1].members = "leader"
  /\ inserting["c1"][1].date = inserting["c2"][1].date
  /\ inserting["c1"][1].slot = inserting["c2"][1].slot

\* Vocabulary of the validation claims: what a request fails, stated on the
\* rows of the client's snapshot (single-label rows).
Blank(nm) == \A i \in 1..Len(nm) : nm[i] = " "

\* The one selected slot of a form with a selection.
Chosen(c) == selectedSlots[c][1]

OccupantCount(c) == Cardinality(RowsAt(bookings[c], date[c], Chosen(c)))

HasLeader(c) == LeadersAt(bookings[c], date[c], Chosen(c)) # {}

FailsSlot(c) == selectedSlots[c] = <<>>

FailsName(c) == Blank(name[c])

FailsCapacity(c) == selectedSlots[c] # <<>> /\ OccupantCount(c) >= MAX_CAPACITY

FailsLeader(c) == selectedSlots[c] # <<>> /\ role[c] = "leader" /\ HasLeader(c)

\* The positions the booker would lead with this request include two
\* consecutive ones.
FailsConsecutive(c) ==
  /\ selectedSlots[c] # <<>>
  /\ role[c] = "leader"
  /\ LET led == LedPositions(bookings[c], date[c], Trim(name[c]))
                  \cup {p \in 1..Len(TIME_SLOTS) : TIME_SLOTS[p] = Chosen(c)}
     IN  \E p \in led : p + 1 \in led

FailsDuplicate(c) ==
  /\ selectedSlots[c] # <<>>
  /\ \E i \in RowsAt(bookings[c], date[c], Chosen(c)) :
        bookings[c][i].leader = Trim(name[c])

WellFormed(c) == ~FailsSlot(c) /\ ~FailsName(c)

\* C6: of the stages a request fails, handleSubmit reports the first in the
\* order MissingSlot, MissingName, SlotFull, LeaderConflict,
\* ConsecutiveLeadership, DuplicateBooking (and none when no stage fails).
C6_FirstFailingStage ==
  [][\A c \in Clients :
        HandleSubmit(c) =>
          error'[c] =
            IF FailsSlot(c) THEN <<"MissingSlot">>
            ELSE IF FailsName(c) THEN <<"MissingName">>
            ELSE IF FailsCapacity(c) THEN <<"SlotFull">> \o Chosen(c)
            ELSE IF FailsLeader(c) THEN <<"LeaderConflict">> \o Chosen(c)
            ELSE IF FailsConsecutive(c) THEN <<"ConsecutiveLeadership">>
            ELSE IF FailsDuplicate(c) THEN <<"DuplicateBooking">>
            ELSE NoError]_vars

\* C6 witness: a request that fails the leader stage and the duplicate stage
\* has been answered with LeaderConflict.
C6_Witness ==
  /\ FailsLeader("c1") /\ FailsDuplicate("c1")
  /\ ~FailsCapacity("c1") /\ WellFormed("c1")
  /\ error["c1"] = <<"LeaderConflict">> \o Chosen("c1")

\* C7: handleSubmit answers MissingSlot when no slot is selected, MissingName
\* when a slot is selected and the name is blank, and neither of them for a
\* request with a slot and a name that is not blank.
C7_WellFormedness ==
  [][\A c \in Clients :
        HandleSubmit(c) =>
          /\ FailsSlot(c) => error'[c] = <<"MissingSlot">>
          /\ (~FailsSlot(c) /\ FailsName(c)) => error'[c] = <<"MissingName">>
          /\ WellFormed(c) => error'[c] \notin {<<"MissingSlot">>, <<"MissingName">>}]_vars

\* C7 witness: a request with a slot and a name of blanks only has been
\* answered with MissingName.
C7_Witness ==
  /\ selectedSlots["c1"] # <<>>
  /\ name["c1"] = NameBlank
  /\ error["c1"] = <<"MissingName">>

\* C8: a well-formed request is answered with SlotFull exactly when the
\* snapshot holds MAX_CAPACITY or more reservations on the form's date and the
\* chosen slot, whatever its role and name.
C8_SlotFullIffAtCapacity ==
  [][\A c \in Clients :
        (HandleSubmit(c) /\ WellFormed(c)) =>
          (error'[c] = <<"SlotFull">> \o Chosen(c) <=> OccupantCount(c) >= MAX_CAPACITY)]_vars

\* C8 witness: MAX_CAPACITY member reservations on (D, S1), and a further
\* member request for (D, S1) has been answered with SlotFull.
C8_Witness ==
  /\ WellFormed("c1")
  /\ Chosen("c1") = S1
  /\ role["c1"] = "member"
  /\ Cardinality({i \in RowsAt(bookings["c1"], date["c1"], S1) :
        bookings["c1"][i].members = "member"}) = MAX_CAPACITY
  /\ error["c1"] = <<"SlotFull">> \o S1

\* C9 as stated: a well-formed leader request for a (date, slot) pair that
\* has a leader in the history is answered with LeaderConflict.
C9_AlwaysLeaderConflict ==
  [][\A c \in Clients :
        (HandleSubmit(c) /\ WellFormed(c) /\ role[c] = "leader" /\ HasLeader(c)) =>
          error'[c] = <<"LeaderConflict">> \o Chosen(c)]_vars

\* C9 amended: such a request is always rejected; the reason is LeaderConflict
\* when the pair holds fewer than MAX_CAPACITY reservations in the history,
\* and SlotFull when it holds MAX_CAPACITY or more.
C9_RejectedLeaderOrFull ==
  [][\A c \in Clients :
        (HandleSubmit(c) /\ WellFormed(c) /\ role[c] = "leader" /\ HasLeader(c)) =>
          /\ inserting'[c] = <<>>
          /\ error'[c] =
               IF OccupantCount(c) >= MAX_CAPACITY
               THEN <<"SlotFull">> \o Chosen(c)
               ELSE <<"LeaderConflict">> \o Chosen(c)]_vars

\* C9 witness: a leader request for a pair with a leader and free capacity
\* has been answered with LeaderConflict.
C9_Witness ==
  /\ WellFormed("c1")
  /\ role["c1"] = "leader"
  /\ HasLeader("c1")
  /\ OccupantCount("c1") < MAX_CAPACITY
  /\ error["c1"] = <<"LeaderConflict">> \o Chosen("c1")

\* C10: a request that passes well-formedness and capacity is answered with
\* LeaderConflict exactly when its role is leader and the chosen slot has a
\* leader; a member request for a slot with a leader and free capacity, by a
\* booker without reservation on that pair, is admitted.
C10_LeaderConflictIff ==
  [][\A c \in Clients :
        (HandleSubmit(c) /\ WellFormed(c) /\ ~FailsCapacity(c)) =>
          /\ error'[c] = <<"LeaderConflict">> \o Chosen(c)
               <=> (role[c] = "leader" /\ HasLeader(c))
          /\ (role[c] = "member" /\ HasLeader(c) /\ ~FailsDuplicate(c)) =>
               (error'[c] = NoError /\ inserting'[c] # <<>>)]_vars

\* C10 witness: a member insert admitted for a pair that has a leader in the
\* snapshot.
C10_Witness ==
  /\ inserting["c1"] # <<>>
  /\ inserting["c1"][1].members = "member"
  /\ LeadersAt(bookings["c1"], inserting["c1"][1].date, inserting["c1"][1].slot) # {}

\* Catalog position (from 1) of the chosen slot.
ChosenPosition(c) == IndexOfSlot(Chosen(c)) + 1

\* The positions the booker leads on the form's date in the snapshot.
Led(c) == LedPositions(bookings[c], date[c], Trim(name[c]))

\* The booker leads, in the snapshot, a slot next to the chosen one.
LeadsBefore(c) == ChosenPosition(c) - 1 \in Led(c)
LeadsAfter(c) == ChosenPosition(c) + 1 \in Led(c)

\* C11 as stated: a well-formed leader request for position i+1 (or i) by a
\* booker who leads position i (or i+1) on that date is answered with
\* ConsecutiveLeadership.
C11_AlwaysConsecutive ==
  [][\A c \in Clients :
        (/\ HandleSubmit(c) /\ WellFormed(c) /\ role[c] = "leader"
         /\ (LeadsBefore(c) \/ LeadsAfter(c))) =>
          error'[c] = <<"ConsecutiveLeadership">>]_vars

\* C11 amended: such a request is always rejected, in both directions; the
\* reason is ConsecutiveLeadership when the requested slot passes stage 3,
\* SlotFull when the slot is full and LeaderConflict when it is not full and
\* has a leader.
C11_AdjacentRejected ==
  [][\A c \in Clients :
        (/\ HandleSubmit(c) /\ WellFormed(c) /\ role[c] = "leader"
         /\ (LeadsBefore(c) \/ LeadsAfter(c))) =>
          /\ inserting'[c] = <<>>
          /\ error'[c] =
               IF FailsCapacity(c) THEN <<"SlotFull">> \o Chosen(c)
               ELSE IF HasLeader(c) THEN <<"LeaderConflict">> \o Chosen(c)
               ELSE <<"ConsecutiveLeadership">>]_vars

\* C11 witness: a booker who leads the later slot only has requested the
\* slot before it as leader and has been answered with ConsecutiveLeadership.
C11_Witness ==
  /\ WellFormed("c1")
  /\ role["c1"] = "leader"
  /\ LeadsAfter("c1") /\ ~LeadsBefore("c1")
  /\ error["c1"] = <<"ConsecutiveLeadership">>

\* The chosen slot is two or more positions away from every slot the booker
\* leads on the form's date in the snapshot.
FarFromLed(c) ==
  \A p \in Led(c) : ChosenPosition(c) - p >= 2 \/ p - ChosenPosition(c) >= 2

Resubmits(c) ==
  /\ selectedSlots[c] # <<>>
  /\ \E i \in RowsAt(store, date[c], Chosen(c)) : store[i].leader = Trim(name[c])

\* C13 as stated: a submission that repeats the (name, date, slot) of a
\* submission admitted and stored before it is answered with DuplicateBooking.
C13_SecondIsDuplicate ==
  [][\A c \in Clients :
        (HandleSubmit(c) /\ WellFormed(c) /\ Resubmits(c)) =>
          (error'[c] = <<"DuplicateBooking">> /\ inserting'[c] = <<>>)]_vars

\* C13 amended: a well-formed first submission, against an empty snapshot, is
\* admitted; a submission that repeats a (name, date, slot) which the
\* client's snapshot holds is rejected, with DuplicateBooking when it passes
\* stages 3 and 4 and with the reason of the first of these stages it fails
\* otherwise.
C13_AdmitThenRejected ==
  [][\A c \in Clients :
        /\ (HandleSubmit(c) /\ WellFormed(c) /\ bookings[c] = <<>>) =>
             (error'[c] = NoError /\ inserting'[c] # <<>>)
        /\ (HandleSubmit(c) /\ WellFormed(c) /\ FailsDuplicate(c)) =>
             /\ inserting'[c] = <<>>
             /\ error'[c] =
                  IF FailsCapacity(c) THEN <<"SlotFull">> \o Chosen(c)
                  ELSE IF FailsLeader(c) THEN <<"LeaderConflict">> \o Chosen(c)
                  ELSE IF FailsConsecutive(c) THEN <<"ConsecutiveLeadership">>
                  ELSE <<"DuplicateBooking">>]_vars

\* C13 witness: the client's own earlier submission is stored and read back,
\* and the same (name, date, slot) submitted again has been answered with
\* DuplicateBooking.
C13_Witness ==
  /\ WellFormed("c1")
  /\ Resubmits("c1")
  /\ FailsDuplicate("c1")
  /\ error["c1"] = <<"DuplicateBooking">>

\* C14: a request that passes stages 1 to 4 is answered with DuplicateBooking
\* exactly when the snapshot holds a reservation with the same date, the same
\* slot and the request's name after trimming, whatever the two roles; it is
\* admitted otherwise.
C14_DuplicateIff ==
  [][\A c \in Clients :
        (/\ HandleSubmit(c) /\ WellFormed(c)
         /\ ~FailsCapacity(c) /\ ~FailsLeader(c) /\ ~FailsConsecutive(c)) =>
          /\ error'[c] = <<"DuplicateBooking">> <=> FailsDuplicate(c)
          /\ inserting'[c] = <<>> <=> FailsDuplicate(c)]_vars

\* C14 witness: a booker stored as member of a slot without leader has
\* requested the same slot as leader, under a name typed with a leading
\* blank, and has been answered with DuplicateBooking.
C14_Witness ==
  /\ WellFormed("c1")
  /\ role["c1"] = "leader"
  /\ name["c1"] = NameBlankA
  /\ ~HasLeader("c1")
  /\ \E i \in RowsAt(bookings["c1"], date["c1"], Chosen("c1")) :
        bookings["c1"][i].leader = NameA /\ bookings["c1"][i].members = "member"
  /\ error["c1"] = <<"DuplicateBooking">>

\* Vocabulary of the index claims.  A reservation occupies a slot when its
\* slot string is the label, or lists it (rows of the multi-select form).
Occupies(row, t) ==
  \/ row.slot = t
  \/ row.slot = LegacySlots /\ t \in {S1, S2}

OccupantsOf(rows, d, t) == {i \in 1..Len(rows) : rows[i].date = d /\ Occupies(rows[i], t)}

\* The dates of the rows, and one more that has no reservation.
IndexDates == SoloDates \cup {DefaultDate + 2}

\* C15: for every date and every reservation set, the slot-status index has
\* an entry for every label of the slot catalog.
C15_IndexComplete ==
  \A c \in Clients, d \in IndexDates :
     SeqToSet(catalog) \subseteq DOMAIN SlotStatus(bookings[c], d)

\* C15 witness: a client whose snapshot has reservations, none of them on the
\* form's date, has selected a slot (toggleSlot found its entry).
C15_Witness ==
  /\ bookings["c1"] # <<>>
  /\ \A i \in 1..Len(bookings["c1"]) : bookings["c1"][i].date # date["c1"]
  /\ selectedSlots["c1"] # <<>>

\* C16: for every reservation set, date and catalog slot, the index's count
\* is the number of reservations of that date occupying the slot and hasLeader
\* holds exactly when one of them has role leader.
C16_IndexCounts ==
  \A c \in Clients, d \in IndexDates, t \in SeqToSet(catalog) :
     LET entry == SlotStatus(bookings[c], d)[t]
         occupants == OccupantsOf(bookings[c], d, t)
     IN  /\ entry.count = Cardinality(occupants)
         /\ entry.hasLeader <=> \E i \in occupants : bookings[c][i].members = "leader"

\* C16 witness: a snapshot with reservations on both dates; on the form's
\* date a multi-slot row occupies S1 and S2, S2 has two occupants, one of
\* them a leader; the client has selected S3.
C16_Witness ==
  /\ \E i \in 1..Len(bookings["c1"]) : bookings["c1"][i].date # date["c1"]
  /\ \E i \in OccupantsOf(bookings["c1"], date["c1"], S1) :
        bookings["c1"][i].slot = LegacySlots
  /\ \E i \in OccupantsOf(bookings["c1"], date["c1"], S2) :
        bookings["c1"][i].members = "leader"
  /\ SlotStatus(bookings["c1"], date["c1"])[S2].count = 2
  /\ selectedSlots["c1"] = <<S3>>

\* The sequence rows in the order given by the permutation f of its indices.
Permuted(rows, f) == [i \in 1..Len(rows) |-> rows[f[i]]]

\* C17: the index does not depend on the order of the reservations: every
\* permutation of a reservation sequence yields the same index for a date.
C17_IndexOrderIndependent ==
  \A c \in Clients, d \in IndexDates :
     \A f \in Permutations(1..Len(bookings[c])) :
        SlotStatus(Permuted(bookings[c], f), d) = SlotStatus(bookings[c], d)

\* C17 witness: a snapshot in which a leader's and a member's reservation
\* share a slot of the form's date, the leader's first, and another slot is
\* selected.
C17_Witness ==
  /\ \E i, j \in OccupantsOf(bookings["c1"], date["c1"], S1) :
        /\ i < j
        /\ bookings["c1"][i].members = "leader"
        /\ bookings["c1"][j].members = "member"
  /\ selectedSlots["c1"] = <<S2>>

\* The request of client c passes all five stages.
PassesAll(c) ==
  /\ WellFormed(c)
  /\ ~FailsCapacity(c) /\ ~FailsLeader(c) /\ ~FailsConsecutive(c) /\ ~FailsDuplicate(c)

\* The reservation the form of client c describes.
FormRow(c) ==
  [date |-> date[c], leader |-> Trim(name[c]), members |-> role[c], slot |-> Chosen(c)]

\* C18: a submission that passes all five stages issues one insert of one
\* row, with the form's date, the selected label, the trimmed name and the
\* chosen role; a submission that fails a stage issues none; an insert call
\* starts in no other way, and the store grows only by the row of a call.
C18_OneInsertPerAdmit ==
  [][\A c \in Clients :
        /\ HandleSubmit(c) =>
             inserting'[c] = IF PassesAll(c) THEN <<FormRow(c)>> ELSE <<>>
        /\ (inserting'[c] # inserting[c] /\ inserting'[c] # <<>>) =>
             (HandleSubmit(c) /\ inserting[c] = <<>>)
        /\ (inserting[c] # <<>> /\ inserting'[c] = <<>>) =>
             store' \in {store, store \o inserting[c]}
        /\ store' # store => \E k \in Clients :
             inserting[k] # <<>> /\ inserting'[k] = <<>> /\ store' = store \o inserting[k]]_vars

\* C18 witness: an insert in flight for a name typed with a leading blank,
\* as leader: the row has the trimmed name.
C18_Witness ==
  /\ name["c1"] = NameBlankA
  /\ role["c1"] = "leader"
  /\ bookings["c1"] # <<>>
  /\ selectedSlots["c1"] # <<>>
  /\ inserting["c1"] = <<[date |-> date["c1"], leader |-> NameA,
                          members |-> "leader", slot |-> Chosen("c1")]>>

\* C19: in every reachable form state selectedSlots holds at most one label,
\* a catalog label, and every row handleSubmit has written (in flight or
\* stored) has a slot field that is one catalog label.
C19_SingleCatalogLabel ==
  /\ \A c \in Clients :
        /\ Len(selectedSlots[c]) <= 1
        /\ SeqToSet(selectedSlots[c]) \subseteq SeqToSet(catalog)
        /\ Len(inserting[c]) <= 1
        /\ \A i \in 1..Len(inserting[c]) : inserting[c][i].slot \in SeqToSet(catalog)
  /\ \A i \in 1..Len(store) : store[i].slot \in SeqToSet(catalog)

\* C19 witness: a row is stored and the client's second row, for another
\* slot, is on its way.
C19_Witness ==
  /\ store # <<>>
  /\ inserting["c1"] # <<>>
  /\ inserting["c1"][1].slot # store[1].slot
  /\ selectedSlots["c1"] # <<>>

Reasons ==
  {"MissingSlot", "MissingName", "SlotFull", "LeaderConflict",
   "ConsecutiveLeadership", "DuplicateBooking"}

\* C20: when handleSubmit ends in a validation rejection, the store and the
\* form's date, role, name and selection are as before the attempt, no insert
\* is issued, only the error message changes, and the form can be submitted
\* again.
C20_RejectionKeepsForm ==
  [][\A c \in Clients :
        (HandleSubmit(c) /\ error'[c] # NoError) =>
          /\ error'[c][1] \in Reasons
          /\ <<catalog, store, bookings, loading, fetches, date, role, name,
               selectedSlots, isSubmitting, inserting>>'
               = <<catalog, store, bookings, loading, fetches, date, role, name,
                   selectedSlots, isSubmitting, inserting>>
          /\ \A k \in Clients \ {c} : error'[k] = error[k]
          /\ ~isSubmitting'[c] /\ name'[c] # <<>>]_vars

\* C20 witness: a leader request rejected with ConsecutiveLeadership; the
\* form still holds the request and no insert is in flight.
C20_Witness ==
  /\ error["c1"] = <<"ConsecutiveLeadership">>
  /\ role["c1"] = "leader"
  /\ selectedSlots["c1"] # <<>>
  /\ name["c1"] = NameBlankA
  /\ inserting["c1"] = <<>>
  /\ ~isSubmitting["c1"]
  /\ ENABLED HandleSubmit("c1")

\* The insert call of client c returns in this step without its row written.
InsertFails(c) == inserting[c] # <<>> /\ inserting'[c] = <<>> /\ store' = store

\* C21: when the insert returns an error, handleSubmit shows the error, issues
\* no further insert, keeps the form's date, role, name and selection, starts
\* no refresh and sets isSubmitting back to false.
C21_StoreErrorKeepsForm ==
  [][\A c \in Clients :
        InsertFails(c) =>
          /\ error'[c] = <<"StoreError">>
          /\ \A k \in Clients : inserting'[k] = <<>> \/ inserting'[k] = inserting[k]
          /\ <<date, role, name, selectedSlots>>' = <<date, role, name, selectedSlots>>
          /\ fetches' = fetches /\ loading' = loading /\ bookings' = bookings
          /\ isSubmitting[c] /\ ~isSubmitting'[c]]_vars

\* C21 witness: a leader submission was admitted, its insert failed: the
\* form still holds the request, the error is shown, nothing is in flight.
C21_Witness ==
  /\ error["c1"] = <<"StoreError">>
  /\ role["c1"] = "leader"
  /\ name["c1"] = NameBlankA
  /\ selectedSlots["c1"] # <<>>
  /\ inserting["c1"] = <<>>
  /\ fetches["c1"] = <<>>
  /\ ~isSubmitting["c1"]

\* C22: within one client at most one submission is in flight: isSubmitting
\* holds exactly while the client's insert call is out, the call carries one
\* row, and handleSubmit cannot start while it is out.
C22_OneSubmissionInFlight ==
  \A c \in Clients :
     /\ isSubmitting[c] <=> inserting[c] # <<>>
     /\ Len(inserting[c]) <= 1
     /\ isSubmitting[c] => ~ENABLED HandleSubmit(c)

\* C22 witness: while the insert is out the user has filled the form again,
\* for another slot.
C22_Witness ==
  /\ isSubmitting["c1"]
  /\ inserting["c1"] # <<>>
  /\ name["c1"] # <<>>
  /\ selectedSlots["c1"] # <<>>
  /\ selectedSlots["c1"][1] # inserting["c1"][1].slot

\* C23: the store is append-only: every step keeps the stored rows, in place
\* and unchanged, and adds at most the one row of an insert call; an insert
\* call is issued only by a run of handleSubmit that found no error.
C23_AppendOnly ==
  [][/\ Len(store') >= Len(store)
     /\ SubSeq(store', 1, Len(store)) = store
     /\ store' # store =>
          \E c \in Clients : inserting[c] # <<>> /\ store' = Append(store, inserting[c][1])
     /\ \A c \in Clients :
          (inserting[c] = <<>> /\ inserting'[c] # <<>>) =>
             (HandleSubmit(c) /\ error'[c] = NoError)]_vars

\* C23 witness: the store holds a row of each client, for the same slot, the
\* earlier one still in place.
C23_Witness ==
  /\ Len(store) = 2
  /\ store[1].leader # store[2].leader
  /\ store[1].slot = store[2].slot

\* C24: a slot is selected only while the snapshot shows it not full, and the
\* capacity check is repeated at submit time: a request with a name, for a
\* slot that the snapshot now shows full, is answered with SlotFull and
\* issues no insert.
C24_CapacityRecheck ==
  [][\A c \in Clients :
        /\ (selectedSlots'[c] # selectedSlots[c] /\ selectedSlots'[c] # <<>>) =>
             Cardinality(RowsAt(bookings[c], date[c], selectedSlots'[c][1])) < MAX_CAPACITY
        /\ (HandleSubmit(c) /\ WellFormed(c) /\ OccupantCount(c) >= MAX_CAPACITY) =>
             (error'[c] = <<"SlotFull">> \o Chosen(c) /\ inserting'[c] = inserting[c])]_vars

\* C24 witness: the selected slot has become full in the snapshot (a refresh
\* after the selection) and the submission has been answered with SlotFull.
C24_Witness ==
  \E c \in Clients :
     /\ WellFormed(c)
     /\ OccupantCount(c) >= MAX_CAPACITY
     /\ error[c] = <<"SlotFull">> \o Chosen(c)
     /\ inserting[c] = <<>>

\* Every row of rows is one of the rows of snapshot, and snapshot is as long.
Contains(snapshot, rows) ==
  /\ Len(snapshot) >= Len(rows)
  /\ \A i \in 1..Len(rows) : \E j \in 1..Len(snapshot) : snapshot[j] = rows[i]

C26_SerialKeepsStoreProperties == StoreProperties(store)

\* C26 witness: a fourth booker's row has been added to a store of three
\* rows and has taken the last place of its slot.
C26_Witness ==
  /\ Len(store) = MaxSerial + 1
  /\ store[Len(store)].leader = NameD
  /\ Cardinality(RowsAt(store, DefaultDate, store[Len(store)].slot)) = MAX_CAPACITY

\* C27: a member request is never answered with ConsecutiveLeadership, and a
\* leader request is answered with it only when the slots led, on the form's
\* date, by reservations with the trimmed name and role leader, together with
\* the chosen slot, include two adjacent ones; no other reservation counts.
C27_OnlyOwnLeaderRowsCount ==
  [][\A c \in Clients :
        (HandleSubmit(c) /\ error'[c] = <<"ConsecutiveLeadership">>) =>
          /\ role[c] = "leader"
          /\ LET positions == Led(c) \cup {ChosenPosition(c)}
             IN  \E p \in positions : p + 1 \in positions]_vars

\* C27 witness: the booker is a member of the slot before the chosen one,
\* another booker leads the slot after it, and the leader request has been
\* admitted.
C27_Witness ==
  /\ role["c1"] = "leader"
  /\ inserting["c1"] # <<>>
  /\ inserting["c1"][1].slot = S2
  /\ \E i \in RowsAt(bookings["c1"], date["c1"], S1) :
        bookings["c1"][i].leader = Trim(name["c1"]) /\ bookings["c1"][i].members = "member"
  /\ \E i \in LeadersAt(bookings["c1"], date["c1"], S3) :
        bookings["c1"][i].leader # Trim(name["c1"])

\* C28: a change of the form's date empties the selection, a slot is selected
\* only under the date the form shows (and is capacity-checked for that date),
\* and an admitted submission books the selected slot on the form's date.
C28_SelectionBelongsToDate ==
  [][\A c \in Clients :
        /\ date'[c] # date[c] => selectedSlots'[c] = <<>>
        /\ (selectedSlots'[c] # selectedSlots[c] /\ selectedSlots'[c] # <<>>) =>
             /\ date'[c] = date[c]
             /\ ~IsFull(SlotStatus(bookings[c], date[c])[selectedSlots'[c][1]])
        /\ Admits(c) =>
             /\ inserting'[c][1].date = date[c]
             /\ inserting'[c][1].slot = selectedSlots[c][1]
             /\ date'[c] = date[c] /\ selectedSlots'[c] = selectedSlots[c]]_vars

\* C28 witness: a first row is stored for the default date; the form shows
\* another date and the row in flight is for that date and the same label.
C28_Witness ==
  /\ store # <<>>
  /\ store[1].date = DefaultDate
  /\ date["c1"] # DefaultDate
  /\ inserting["c1"] # <<>>
  /\ inserting["c1"][1].date = date["c1"]
  /\ inserting["c1"][1].slot = store[1].slot

\* C29: when a read fails the client's snapshot stays as it was and loading
\* becomes false; whenever a read ends loading becomes false, and the snapshot
\* is then either unchanged or the data of that read, answered by the store.
C29_FailedReadKeepsSnapshot ==
  [][\A c \in Clients :
        /\ \A i \in 1..Len(fetches[c]) :
             FetchFail(c, i) => (bookings'[c] = bookings[c] /\ ~loading'[c])
        /\ Len(fetches'[c]) < Len(fetches[c]) =>
             /\ ~loading'[c]
             /\ \E i \in 1..Len(fetches[c]) :
                  /\ fetches'[c] = RemoveAt(fetches[c], i)
                  /\ \/ bookings'[c] = bookings[c]
                     \/ fetches[c][i].read /\ bookings'[c] = fetches[c][i].data
        /\ Len(fetches'[c]) >= Len(fetches[c]) => bookings'[c] = bookings[c]]_vars

\* C29 witness: the refresh after the client's insert has failed: the store
\* holds a row more than the snapshot, no read is out and loading is false.
C29_Witness ==
  /\ Len(store) = Len(bookings["c1"]) + 1
  /\ bookings["c1"] # <<>>
  /\ fetches["c1"] = <<>>
  /\ inserting["c1"] = <<>>
  /\ ~loading["c1"]

\* C30: provided the insert call returns, every submission attempt ends: a
\* run of handleSubmit either rejects at once (error shown, isSubmitting
\* false) or issues the insert, whose return either writes the row or shows
\* the store's error, and in both cases sets isSubmitting false; so
\* isSubmitting never stays true.
C30_SubmissionEnds ==
  /\ [][\A c \in Clients :
          /\ HandleSubmit(c) =>
               \/ error'[c] # NoError /\ ~isSubmitting'[c] /\ inserting'[c] = <<>>
               \/ error'[c] = NoError /\ isSubmitting'[c] /\ inserting'[c] # <<>>
          /\ (inserting[c] # <<>> /\ inserting'[c] = <<>>) =>
               /\ ~isSubmitting'[c]
               /\ \/ store' = store \o inserting[c] /\ error'[c] = NoError
                  \/ store' = store /\ error'[c] = <<"StoreError">>]_vars
  /\ \A c \in Clients : isSubmitting[c] ~> ~isSubmitting[c]

\* C30 witness: an admitted submission has ended as written: the row is in
\* the store, the form is reset and open again.
C30_Witness ==
  /\ store # <<>>
  /\ Len(store) > Len(bookings["c1"])
  /\ name["c1"] = <<>>
  /\ error["c1"] = NoError
  /\ inserting["c1"] = <<>>
  /\ ~isSubmitting["c1"]

\* The entries the list of client c shows, over all its date groups.
RECURSIVE FlattenGroups(_)
FlattenGroups(groups) ==
  IF groups = <<>> THEN <<>>
  ELSE Head(groups).slots \o FlattenGroups(Tail(groups))

ShownSlots(c) == FlattenGroups(HistoryList(c))

\* Positions of the shown entries of day d and slot label t.
EntriesOf(c, d, t) ==
  {k \in 1..Len(ShownSlots(c)) :
     ShownSlots(c)[k].dateStr = DateStr(d) /\ ShownSlots(c)[k].slotTime = t}

\* How many rows of the snapshot of c reserve label t on day d for nm in role r.
RowCount(c, d, t, nm, r) ==
  Cardinality({i \in 1..Len(bookings[c]) :
     /\ bookings[c][i].date = d
     /\ bookings[c][i].leader = nm
     /\ bookings[c][i].members = r
     /\ \E j \in 1..Len(BookedSlots(bookings[c][i].slot)) :
          BookedSlots(bookings[c][i].slot)[j] = t})

\* How often entry e shows nm in role r.
ShownCount(e, nm, r) ==
  IF r = "leader" THEN (IF e.leader = <<nm>> THEN 1 ELSE 0)
  ELSE Cardinality({j \in 1..Len(e.members) : e.members[j] = nm})

\* C31: the history view loses no reservation.  In every reachable state, for
\* every client whose list is rendered, each reservation of its snapshot
\* dated today, tomorrow or the day after has, for each slot it occupies,
\* exactly one shown entry of that (date, slot); the entry names the booker
\* as its leader when the reservation's role is leader and in its member
\* list otherwise, once per such reservation.
C31_NoReservationLost ==
  \A c \in Clients :
    ~loading[c] =>
      \A i \in 1..Len(bookings[c]) :
        LET r     == bookings[c][i]
            slots == BookedSlots(r.slot)
        IN  IsInRange(r) =>
              \A j \in 1..Len(slots) :
                /\ Cardinality(EntriesOf(c, r.date, slots[j])) = 1
                /\ \A k \in EntriesOf(c, r.date, slots[j]) :
                     ShownCount(ShownSlots(c)[k], r.leader, r.members)
                       = RowCount(c, r.date, slots[j], r.leader, r.members)

\* C31 failing state: the rendered snapshot of c1 holds two leader
\* reservations of different bookers for one slot of a shown day, and the
\* single entry of that slot names only one of them.
C31_Witness ==
  /\ ~loading["c1"]
  /\ \E i, j \in 1..Len(bookings["c1"]) :
        LET a == bookings["c1"][i]
            b == bookings["c1"][j]
        IN  /\ i < j
            /\ IsInRange(a)
            /\ a.date = b.date /\ a.slot = b.slot
            /\ a.members = "leader" /\ b.members = "leader"
            /\ a.leader # b.leader
            /\ \A k \in EntriesOf("c1", a.date, a.slot) :
                 /\ ShownSlots("c1")[k].leader = <<b.leader>>
                 /\ ShownSlots("c1")[k].members = <<>>

====
